---- MODULE Spec2Model ----
(***************************************************************************)
(* Model of the radar-image generator: radar_generator.py (point_for_score, *)
(* draw_radar_by_anchors, add_avatar) and app.py (generate_radar_image).    *)
(*                                                                          *)
(* Numbers.  A Python float is modelled as a record [n, m, nan]: the value  *)
(* n/Den + m*(1e-9/Eps), where n counts score steps of 1/Den and m counts   *)
(* fractions of the 1e-9 tolerance of point_for_score.  The m part is       *)
(* smaller than any step of the n part, so values compare lexicographically *)
(* on (n, m).  This keeps the 1e-9 tolerance of the source, and it covers   *)
(* inputs such as float("2.3"), which is not exactly 23/10.                 *)
(***************************************************************************)
EXTENDS Integers, Sequences, FiniteSets, TLC

VARIABLES
    pf_anchors,   \* point_for_score: the anchor list of the last call
    pf_score,     \* point_for_score: the score of the last call
    pf_result,    \* point_for_score: what the last call returned or raised
    d_args,       \* draw_radar_by_anchors: its arguments and the template image
    d_pc,         \* draw_radar_by_anchors: the statement reached
    d_points,     \* draw_radar_by_anchors: the list "points"
    d_drawn,      \* draw_radar_by_anchors: what has been drawn so far
    d_label,      \* draw_radar_by_anchors: the score label drawn last
    d_file,       \* draw_radar_by_anchors: whether out_path has been written
    d_err,        \* draw_radar_by_anchors: the exception raised, if any
    av_args,      \* add_avatar: center, size, radius, border_width
    av_bg,        \* add_avatar: the pixels of the background image
    av_pc,        \* add_avatar: "start" or "returned"
    files,        \* generate_radar_image: the files that exist, by path
    dirs,         \* generate_radar_image: the temporary directories that exist
    req           \* generate_radar_image: each request's arguments and progress

pf_vars == <<pf_anchors, pf_score, pf_result>>

d_vars == <<d_args, d_pc, d_points, d_drawn, d_label, d_file, d_err>>

av_vars == <<av_args, av_bg, av_pc>>

app_vars == <<files, dirs, req>>

vars == <<pf_vars, d_vars, av_vars, app_vars>>

----------------------------------------------------------------------------
\* Number representation

\* gr.Slider(0, 10, step=0.1): n counts tenths
Den == 10

\* 1e-9 in units of m
Eps == 2

\* largest |m| of an input score
MaxM == 3

Num(n, m) == [n |-> n, m |-> m, nan |-> FALSE]

NaN == [n |-> 0, m |-> 0, nan |-> TRUE]

FromInt(k) == Num(k * Den, 0)

\* a < b on floats: every comparison with NaN is false
Lt(a, b) == /\ ~a.nan
            /\ ~b.nan
            /\ \/ a.n < b.n
               \/ a.n = b.n /\ a.m < b.m

\* a <= b on floats
Le(a, b) == /\ ~a.nan
            /\ ~b.nan
            /\ \/ a.n < b.n
               \/ a.n = b.n /\ a.m <= b.m

\* Python's min(a, b): b if b < a else a
PyMin(a, b) == IF Lt(b, a) THEN b ELSE a

\* Python's max(a, b): b if b > a else a
PyMax(a, b) == IF Lt(a, b) THEN b ELSE a

\* math.floor of a float, as an integer
Floor(v) == IF v.n % Den = 0 /\ v.m < 0 THEN (v.n \div Den) - 1 ELSE v.n \div Den

\* Python's round(x) of the float v: to the nearest integer, an exact tie to even
Round(v) ==
    LET q == v.n \div Den
        r == v.n % Den
    IN  IF 2 * r < Den THEN q
        ELSE IF 2 * r > Den THEN q + 1
        ELSE IF v.m > 0 THEN q + 1
        ELSE IF v.m < 0 THEN q
        ELSE IF q % 2 = 0 THEN q ELSE q + 1

----------------------------------------------------------------------------
\* radar_generator.py: interp_point, point_for_score

ValueError == "ValueError"

Returned(v) == [raised |-> "none", value |-> v]

Raised(e) == [raised |-> e, value |-> <<>>]

NotCalled == [raised |-> "not called", value |-> <<>>]

\* one coordinate of interp_point: c0 + (c1 - c0) * t
InterpCoord(c0, c1, t) == Num(c0 * Den + (c1 - c0) * t.n, (c1 - c0) * t.m)

interp_point(p0, p1, t) == <<InterpCoord(p0[1], p1[1], t), InterpCoord(p0[2], p1[2], t)>>

\* the score without its NaN guard: min and max let NaN fall through to 10.0
NormalizeNoNaNGuard(score) == PyMax(FromInt(0), PyMin(FromInt(10), score))

\* lines 30-33: NaN becomes 0.0, then the score is clamped into [0, 10]
Normalize(score) ==
    LET s == IF score.nan THEN FromInt(0) ELSE score
    IN  PyMax(FromInt(0), PyMin(FromInt(10), s))

\* lo = int(math.floor(s + 1e-9))
SegLo(s) == Floor(Num(s.n, s.m + Eps))

\* hi = min(lo + 1, 10)
SegHi(lo) == IF lo + 1 < 10 THEN lo + 1 ELSE 10

\* t = s - lo
SegT(s, lo) == Num(s.n - lo * Den, s.m)

\* the interpolation floored instead of rounded
PointFloored(anchors, s) ==
    LET lo == SegLo(s)
        hi == SegHi(lo)
        t  == SegT(s, lo)
        p  == interp_point(anchors[lo + 1], anchors[hi + 1], t)
    IN  IF Le(t, Num(0, Eps)) \/ lo = hi
        THEN Returned(anchors[lo + 1])
        ELSE Returned(<<Floor(p[1]), Floor(p[2])>>)

\* the anchor one index too high (anchors[hi] returned at an exact score)
PointOffByOne(anchors, s) ==
    LET lo == SegLo(s)
        hi == SegHi(lo)
        t  == SegT(s, lo)
        p  == interp_point(anchors[lo + 1], anchors[hi + 1], t)
    IN  IF Le(t, Num(0, Eps)) \/ lo = hi
        THEN Returned(anchors[hi + 1])
        ELSE Returned(<<Round(p[1]), Round(p[2])>>)

\* interpolation with the fraction measured from the upper anchor (1 - t)
PointReversed(anchors, s) ==
    LET lo == SegLo(s)
        hi == SegHi(lo)
        t  == SegT(s, lo)
        u  == Num(Den - t.n, 0 - t.m)
        p  == interp_point(anchors[lo + 1], anchors[hi + 1], u)
    IN  IF Le(t, Num(0, Eps)) \/ lo = hi
        THEN Returned(anchors[lo + 1])
        ELSE Returned(<<Round(p[1]), Round(p[2])>>)

\* lines 35-44, for a normalized score s; sequences are 1-based, so
\* anchor_0_to_10[k] is anchors[k + 1]
PointOf(anchors, s) ==
    LET lo == SegLo(s)
        hi == SegHi(lo)
        t  == SegT(s, lo)
        p  == interp_point(anchors[lo + 1], anchors[hi + 1], t)
    IN  IF Le(t, Num(0, Eps)) \/ lo = hi
        THEN Returned(anchors[lo + 1])
        ELSE Returned(<<Round(p[1]), Round(p[2])>>)

\* the length check written as "fewer than 11": a longer list is accepted
LenCheckShort(anchors) == Len(anchors) < 11

\* line 27: len(anchor_0_to_10) != 11
LenCheck(anchors) == Len(anchors) # 11

point_for_score(anchors, score) ==
    IF LenCheck(anchors)
    THEN Raised(ValueError)
    ELSE PointOf(anchors, Normalize(score))

----------------------------------------------------------------------------
\* Inputs of point_for_score

\* app.py lines 13-20
DEFAULT_ANCHORS == <<
    <<<<770, 1210>>, <<770, 1167>>, <<770, 1123>>, <<770, 1082>>, <<770, 1040>>, <<770, 1000>>,
      <<770, 960>>, <<770, 926>>, <<770, 895>>, <<770, 858>>, <<770, 825>>>>,
    <<<<770, 1210>>, <<815, 1190>>, <<855, 1168>>, <<895, 1148>>, <<935, 1126>>, <<972, 1106>>,
      <<1010, 1090>>, <<1044, 1072>>, <<1078, 1054>>, <<1112, 1036>>, <<1145, 1020>>>>,
    <<<<770, 1210>>, <<815, 1236>>, <<855, 1260>>, <<895, 1280>>, <<935, 1298>>, <<972, 1318>>,
      <<1010, 1336>>, <<1044, 1355>>, <<1078, 1375>>, <<1112, 1390>>, <<1145, 1408>>>>,
    <<<<770, 1210>>, <<770, 1258>>, <<770, 1305>>, <<770, 1340>>, <<770, 1385>>, <<770, 1426>>,
      <<770, 1460>>, <<770, 1498>>, <<770, 1530>>, <<770, 1570>>, <<770, 1602>>>>,
    <<<<770, 1210>>, <<728, 1236>>, <<683, 1260>>, <<645, 1280>>, <<606, 1298>>, <<570, 1318>>,
      <<532, 1336>>, <<500, 1355>>, <<465, 1375>>, <<430, 1390>>, <<395, 1408>>>>,
    <<<<770, 1210>>, <<728, 1190>>, <<686, 1168>>, <<645, 1148>>, <<606, 1128>>, <<570, 1110>>,
      <<532, 1090>>, <<500, 1072>>, <<465, 1054>>, <<430, 1036>>, <<395, 1020>>>> >>

\* further anchor lists of 11 points: all equal; steps of 5 and odd steps, with
\* negative coordinates; alternating directions
FlatAnchors == [i \in 1..11 |-> <<500, 500>>]

SlantAnchors == [i \in 1..11 |-> <<5 * (i - 1) - 20, 7 - 3 * (i - 1) * (i - 1)>>]

ZigZagAnchors == [i \in 1..11 |-> <<15 * (i % 2), 40 - (i % 3)>>]

ValidAnchorLists ==
    {DEFAULT_ANCHORS[i] : i \in 1..6} \cup {FlatAnchors, SlantAnchors, ZigZagAnchors}

\* lists that are not 11 long: empty, one short, one long
BadAnchorLists ==
    {<<>>, SubSeq(SlantAnchors, 1, 10), Append(DEFAULT_ANCHORS[2], <<1180, 1000>>)}

AnchorLists == ValidAnchorLists \cup BadAnchorLists

\* scores: every tenth of [0, 10] and its neighbours within MaxM fractions of
\* 1e-9, scores below 0 and above 10, and NaN
Scores ==
    {Num(n, m) : n \in (0..(10 * Den)) \cup {0 - 5 * Den, 0 - 1, 10 * Den + 1, 15 * Den},
                 m \in (0 - MaxM)..MaxM}
    \cup {NaN}

\* the arguments of one call, not made yet
pf_Init ==
    /\ pf_anchors \in AnchorLists
    /\ pf_score \in Scores
    /\ pf_result = NotCalled

\* the call point_for_score(pf_anchors, pf_score)
PointForScore ==
    /\ pf_result = NotCalled
    /\ pf_result' = point_for_score(pf_anchors, pf_score)
    /\ UNCHANGED <<pf_anchors, pf_score, d_vars, av_vars, app_vars>>

----------------------------------------------------------------------------
\* radar_generator.py: draw_radar_by_anchors

IOError == "IOError"

\* pad = 10 of the label's white rectangle
Pad == 10

\* the margin kept from the right and bottom edges
Margin == 8

\* the upward offset of the score text
Nudge == 26

PyMinInt(a, b) == IF b < a THEN b ELSE a

PyMaxInt(a, b) == IF b > a THEN b ELSE a

\* the clamp without its lower bound 0
ClampNoFloor(v, size, t) == PyMinInt(v, size - t - Margin)

\* lines 98-99: max(0, min(int(v), size - t - 8))
Clamp(v, size, t) == PyMaxInt(0, PyMinInt(v, size - t - Margin))

\* lines 93-103 for one label position pos and measured text size tw x th
LabelOp(pos, img, tw, th) ==
    LET x == Clamp(pos[1], img.width, tw)
        y == Clamp(pos[2], img.height, th)
    IN  [x |-> x, y |-> y, tw |-> tw, th |-> th,
         rect |-> <<x - Pad, y - Pad, x + tw + Pad, y + th + Pad>>,
         text |-> <<x, y - Nudge>>]

NoLabel == [x |-> 0, y |-> 0, tw |-> 0, th |-> 0, rect |-> <<>>, text |-> <<>>]

NothingDrawn == [polygon |-> FALSE, labels |-> 0, titles |-> 0, meta |-> FALSE]

\* zip(a, b) stops at the shorter of its two arguments
ZipLen(a, b) == PyMinInt(Len(a), Len(b))

\* lines 72-75
Validate(args) ==
    IF Len(args.scores) # 6 THEN ValueError
    ELSE IF Len(args.anchors) # 6 THEN ValueError
    ELSE "none"

\* line 81: the results of point_for_score over zip(scores, anchors)
PointResults(args) ==
    [i \in 1..ZipLen(args.scores, args.anchors) |->
        point_for_score(args.anchors[i], args.scores[i])]

\* lines 72-75
DrawValidate ==
    /\ d_pc = "start"
    /\ LET e == Validate(d_args)
       IN  /\ d_err' = e
           /\ d_pc' = IF e = "none" THEN "validated" ELSE "raised"
    /\ UNCHANGED <<d_args, d_points, d_drawn, d_label, d_file>>
    /\ UNCHANGED <<pf_vars, av_vars, app_vars>>

\* lines 77-79: Image.open raises when the template cannot be read
DrawOpen ==
    /\ d_pc = "validated"
    /\ d_err' = IF d_args.img.readable THEN "none" ELSE IOError
    /\ d_pc' = IF d_args.img.readable THEN "opened" ELSE "raised"
    /\ UNCHANGED <<d_args, d_points, d_drawn, d_label, d_file>>
    /\ UNCHANGED <<pf_vars, av_vars, app_vars>>

\* line 81: the first call of point_for_score that raises ends the function
DrawPoints ==
    /\ d_pc = "opened"
    /\ LET rs == PointResults(d_args)
       IN  IF \E i \in DOMAIN rs : rs[i].raised # "none"
           THEN /\ d_err' = ValueError
                /\ d_pc' = "raised"
                /\ d_points' = d_points
           ELSE /\ d_err' = d_err
                /\ d_pc' = "points"
                /\ d_points' = [i \in DOMAIN rs |-> rs[i].value]
    /\ UNCHANGED <<d_args, d_drawn, d_label, d_file>>
    /\ UNCHANGED <<pf_vars, av_vars, app_vars>>

\* lines 83-91: polygon, outline, alpha_composite
DrawPolygon ==
    /\ d_pc = "points"
    /\ d_drawn' = [d_drawn EXCEPT !.polygon = TRUE]
    /\ d_pc' = "labels"
    /\ UNCHANGED <<d_args, d_points, d_label, d_file, d_err>>
    /\ UNCHANGED <<pf_vars, av_vars, app_vars>>

\* the sizes textbbox may measure for a score text
TextWidths == {56, 290, 500}

TextHeights == {73, 320}

\* lines 93-103: one iteration of the loop over zip(label_positions, scores)
DrawLabel ==
    /\ d_pc = "labels"
    /\ d_drawn.labels < ZipLen(d_args.label_positions, d_args.scores)
    /\ \E tw \in TextWidths, th \in TextHeights :
           d_label' = LabelOp(d_args.label_positions[d_drawn.labels + 1], d_args.img, tw, th)
    /\ d_drawn' = [d_drawn EXCEPT !.labels = @ + 1]
    /\ UNCHANGED <<d_args, d_pc, d_points, d_file, d_err>>
    /\ UNCHANGED <<pf_vars, av_vars, app_vars>>

\* lines 105-107: the loop over zip(title_positions, name_title)
DrawTitles ==
    /\ d_pc = "labels"
    /\ d_drawn.labels = ZipLen(d_args.label_positions, d_args.scores)
    /\ d_drawn' = [d_drawn EXCEPT !.titles = ZipLen(d_args.title_positions, d_args.name_title)]
    /\ d_pc' = "titles"
    /\ UNCHANGED <<d_args, d_points, d_label, d_file, d_err>>
    /\ UNCHANGED <<pf_vars, av_vars, app_vars>>

\* lines 109-112: the timestamp and the total score
DrawMeta ==
    /\ d_pc = "titles"
    /\ d_drawn' = [d_drawn EXCEPT !.meta = TRUE]
    /\ d_pc' = "meta"
    /\ UNCHANGED <<d_args, d_points, d_label, d_file, d_err>>
    /\ UNCHANGED <<pf_vars, av_vars, app_vars>>

\* lines 114-115: out.save(out_path); return
DrawSave ==
    /\ d_pc = "meta"
    /\ d_file' = TRUE
    /\ d_pc' = "returned"
    /\ UNCHANGED <<d_args, d_points, d_drawn, d_label, d_err>>
    /\ UNCHANGED <<pf_vars, av_vars, app_vars>>

\* Inputs of draw_radar_by_anchors

\* radar_generator.py demo(): scores = [8, 9, 7, 7, 10, 8]
DemoScores == <<FromInt(8), FromInt(9), FromInt(7), FromInt(7), FromInt(10), FromInt(8)>>

ScoreLists ==
    {DemoScores,
     <<Num(15, 0), NaN, Num(0 - 5 * Den, 0), Num(33, 1), FromInt(15), FromInt(0)>>,
     SubSeq(DemoScores, 1, 5),
     Append(DemoScores, FromInt(3)),
     <<>>}

\* six lists with one of them not 11 long, at any of the six places
OneBadAnchorList ==
    {[DEFAULT_ANCHORS EXCEPT ![j] = bad] : j \in 1..6, bad \in BadAnchorLists}

AnchorArgs ==
    {DEFAULT_ANCHORS, SubSeq(DEFAULT_ANCHORS, 1, 5), Append(DEFAULT_ANCHORS, FlatAnchors)}
    \cup OneBadAnchorList

\* app.py line 22
DEFAULT_LABEL_POSITIONS ==
    <<<<858, 745>>, <<1178, 1060>>, <<1178, 1490>>, <<858, 1605>>, <<260, 1490>>, <<260, 1060>>>>

\* app.py line 23
DEFAULT_TITLE_POSITIONS == <<<<865, 250>>, <<975, 355>>, <<978, 455>>>>

\* label positions at and beyond the edges of the canvas
EdgeLabelPositions ==
    <<<<0, 0>>, <<0 - 30, 5>>, <<3, 2995>>, <<1999, 12>>, <<2500, 3500>>, <<120, 150>>>>

LabelArgs ==
    {DEFAULT_LABEL_POSITIONS, EdgeLabelPositions,
     SubSeq(DEFAULT_LABEL_POSITIONS, 1, 5),
     Append(DEFAULT_LABEL_POSITIONS, <<400, 400>>)}

TitleArgs == {<<"a", "b", "c">>, <<"a", "b">>, <<"a", "b", "c", "d">>}

Image(w, h) == [width |-> w, height |-> h, readable |-> TRUE]

Unreadable == [width |-> 0, height |-> 0, readable |-> FALSE]

Templates == {Image(2000, 3000), Image(400, 300), Unreadable}

d_Init ==
    /\ d_args \in [scores : ScoreLists, anchors : AnchorArgs, label_positions : LabelArgs,
                   name_title : TitleArgs, title_positions : {DEFAULT_TITLE_POSITIONS},
                   img : Templates]
    /\ d_pc = "start"
    /\ d_points = <<>>
    /\ d_drawn = NothingDrawn
    /\ d_label = NoLabel
    /\ d_file = FALSE
    /\ d_err = "none"

\* the variables of draw_radar_by_anchors while it is not modelled
d_Idle ==
    /\ d_args = [scores |-> <<>>, anchors |-> <<>>, label_positions |-> <<>>,
                 name_title |-> <<>>, title_positions |-> <<>>, img |-> Unreadable]
    /\ d_pc = "idle"
    /\ d_points = <<>>
    /\ d_drawn = NothingDrawn
    /\ d_label = NoLabel
    /\ d_file = FALSE
    /\ d_err = "none"

pf_Idle ==
    /\ pf_anchors = <<>>
    /\ pf_score = NaN
    /\ pf_result = NotCalled

----------------------------------------------------------------------------
\* radar_generator.py: add_avatar

\* the background is CanvasSide x CanvasSide pixels
CanvasSide == 10

\* the largest avatar size and border width tried
MaxSize == 4

MaxBorder == 2

Canvas == {<<x, y>> : x \in 0..(CanvasSide - 1), y \in 0..(CanvasSide - 1)}

\* int(a / 2) for an integer a: Python's int() truncates towards zero
IntHalf(a) == IF a >= 0 THEN a \div 2 ELSE 0 - ((0 - a) \div 2)

\* the placement computed from the avatar's size alone, the border forgotten
PlaceNoBorder(c, size, border_width) == IntHalf(2 * c - size)

\* lines 142, 161-162: border_size = size + border_width * 2;
\* int(c - border_size / 2)
Place(c, size, border_width) == IntHalf(2 * c - (size + border_width * 2))

\* how far pixel i reaches into a corner of radius r of the span lo..hi
IntoCorner(i, lo, hi, r) ==
    IF i - lo < r THEN r - (i - lo)
    ELSE IF hi - i < r THEN r - (hi - i)
    ELSE 0

\* ImageDraw.rounded_rectangle((x0, y0, x1, y1), radius): the pixels filled.
\* The radius is limited to half the side; a corner pixel is left out when
\* it lies outside the quarter circle of the corner.
RoundedRect(i, j, x0, y0, x1, y1, radius) ==
    LET r == PyMinInt(radius, (x1 - x0) \div 2)
        u == IntoCorner(i, x0, x1, r)
        v == IntoCorner(j, y0, y1, r)
    IN  /\ x0 <= i /\ i <= x1
        /\ y0 <= j /\ j <= y1
        /\ ~(u > 0 /\ v > 0 /\ u * u + v * v > r * r)

\* lines 137-139: the avatar's alpha mask at pixel (i, j) of the avatar
AvatarMask(i, j, a) == RoundedRect(i, j, 0, 0, a.size - 1, a.size - 1, a.radius)

\* lines 145-152: the ring mask at pixel (i, j) of the bordered square
RingMask(i, j, a) ==
    LET bs == a.size + a.border_width * 2
    IN  /\ RoundedRect(i, j, 0, 0, bs - 1, bs - 1, a.radius + a.border_width)
        /\ ~RoundedRect(i, j, a.border_width, a.border_width,
                        bs - 1 - a.border_width, bs - 1 - a.border_width, a.radius)

\* lines 154-158: pixel (i, j) of avatar_with_border: "border", "avatar", or
\* "clear" where neither mask covers it
Composite(i, j, a) ==
    IF AvatarMask(i - a.border_width, j - a.border_width, a) THEN "avatar"
    ELSE IF RingMask(i, j, a) THEN "border"
    ELSE "clear"

\* lines 160-163: bg.paste(avatar_with_border, (x, y), avatar_with_border)
Paste(bg, a) ==
    LET bs == a.size + a.border_width * 2
        x  == Place(a.center[1], a.size, a.border_width)
        y  == Place(a.center[2], a.size, a.border_width)
    IN  [p \in Canvas |->
            IF /\ x <= p[1] /\ p[1] < x + bs
               /\ y <= p[2] /\ p[2] < y + bs
               /\ Composite(p[1] - x, p[2] - y, a) # "clear"
            THEN Composite(p[1] - x, p[2] - y, a)
            ELSE bg[p]]

CenterCoords == {0 - 1, 0, 4, 5, CanvasSide - 1}

av_Init ==
    /\ av_args \in [center : CenterCoords \X CenterCoords, size : 1..MaxSize,
                    radius : {0, 1, 3}, border_width : 0..MaxBorder]
    /\ av_bg = [p \in Canvas |-> "bg"]
    /\ av_pc = "start"

av_Idle ==
    /\ av_args = [center |-> <<0, 0>>, size |-> 1, radius |-> 0, border_width |-> 0]
    /\ av_bg = <<>>
    /\ av_pc = "idle"

\* lines 128-166
AddAvatar ==
    /\ av_pc = "start"
    /\ av_bg' = Paste(av_bg, av_args)
    /\ av_pc' = "returned"
    /\ UNCHANGED <<av_args, pf_vars, d_vars, app_vars>>

----------------------------------------------------------------------------
\* app.py: generate_radar_image, one process per request

\* the number of requests served at the same time
NumReq == 2

Reqs == 1..NumReq

\* the names mkdtemp may give a temporary directory
DirNames == 1..NumReq

\* the system's temporary directory, tempfile.gettempdir()
TempRoot == 0

\* Path(file).name of an upload; "" is no upload
FileName(upload) == [kind |-> "upload", id |-> upload]

\* uuid.uuid4(): a value no other call returns; each call is named by its caller
Uuid4(r) == r

\* f"result_{uuid.uuid4().hex}.png"
ResultName(r) == [kind |-> "result", id |-> Uuid4(r)]

\* f"radar_output_{uuid.uuid4().hex}.png"
PersistName(r) == [kind |-> "radar_output", id |-> Uuid4(r)]

\* the content of an image, by the request whose template, scores and avatar
\* it was made from (0: none)
Content(tpl, scores, av) == [tpl |-> tpl, scores |-> scores, av |-> av]

NoContent == Content(0, 0, 0)

At(fs, dir, name) == {f \in fs : f.dir = dir /\ f.name = name}

\* image.save(path): the file is created or replaced
Write(fs, dir, name, r, c) ==
    (fs \ At(fs, dir, name)) \cup {[dir |-> dir, name |-> name, owner |-> r, c |-> c]}

\* a directory name every request is given: no fresh name is drawn
SharedTemp(ds) == {1}

\* tempfile.TemporaryDirectory(prefix="radar_app_"): mkdtemp creates a
\* directory under a name that does not exist yet
MkdTemp(ds) == {d \in DirNames : \A e \in ds : e.name # d}

\* the directory is left as it is
KeepTree(fs, d) == fs

\* TemporaryDirectory.__exit__: shutil.rmtree of the directory
RemoveTree(fs, d) == {f \in fs : f.dir # d}

\* the arguments generate_radar_image passes to draw_radar_by_anchors
AppDrawArgs ==
    [scores |-> DemoScores, anchors |-> DEFAULT_ANCHORS,
     label_positions |-> DEFAULT_LABEL_POSITIONS, name_title |-> <<"a", "b", "c">>,
     title_positions |-> DEFAULT_TITLE_POSITIONS, img |-> Image(2000, 3000)]

\* request r has used a file or directory made by another request
Foreign(r, used) == \E f \in used : f.owner # r

Step(r, pc, err, foreign) ==
    [req EXCEPT ![r].pc = pc, ![r].err = err,
                ![r].foreign = req[r].foreign \/ foreign]

\* the exception leaves the with block: what a failed save may leave behind
\* is the target file, written by r
Fail(r, what, dir, name) ==
    /\ req' = Step(r, "exit_err", what, FALSE)
    /\ \/ files' = files
       \/ files' = Write(files, dir, name, r, NoContent)
    /\ dirs' = dirs

\* lines 48-49: no template uploaded
RejectNoTemplate(r) ==
    /\ req[r].pc = "start"
    /\ req[r].template = ""
    /\ req' = Step(r, "raised", "gr.Error", FALSE)
    /\ UNCHANGED <<files, dirs, pf_vars, d_vars, av_vars>>

\* lines 54-55: the with statement is entered
EnterTemp(r) ==
    /\ req[r].pc = "start"
    /\ req[r].template # ""
    /\ \E d \in MkdTemp(dirs) :
        /\ dirs' = dirs \cup {[name |-> d, owner |-> r]}
        /\ req' = [Step(r, "entered", "none", Foreign(r, {e \in dirs : e.name = d}))
                       EXCEPT ![r].tmp = d]
    /\ UNCHANGED <<files, pf_vars, d_vars, av_vars>>

\* lines 57-58: _normalize_input_image(template_file, tmp / template_name)
NormalizeTemplate(r) ==
    /\ req[r].pc = "entered"
    /\ LET name == FileName(req[r].template)
       IN  \/ /\ files' = Write(files, req[r].tmp, name, r, Content(r, 0, 0))
              /\ req' = Step(r, "template", "none", Foreign(r, At(files, req[r].tmp, name)))
              /\ dirs' = dirs
           \/ Fail(r, "normalize template", req[r].tmp, name)
    /\ UNCHANGED <<pf_vars, d_vars, av_vars>>

\* lines 59-70: draw_radar_by_anchors reads the normalized template and saves
\* the result; it raises when its validation or its file access fails
DrawRadar(r) ==
    /\ req[r].pc = "template"
    /\ LET src == At(files, req[r].tmp, FileName(req[r].template))
       IN  \/ /\ Validate(AppDrawArgs) = "none"
              /\ \E f \in src :
                  /\ files' = Write(files, req[r].tmp, ResultName(r), r, Content(f.c.tpl, r, 0))
                  /\ req' = Step(r, "drawn", "none",
                                 Foreign(r, src \cup At(files, req[r].tmp, ResultName(r))))
              /\ dirs' = dirs
           \/ Fail(r, IF Validate(AppDrawArgs) = "none" THEN "draw" ELSE ValueError,
                   req[r].tmp, ResultName(r))
    /\ UNCHANGED <<pf_vars, d_vars, av_vars>>

\* lines 72-74: _normalize_input_image(avatar_file, tmp / avatar_name)
NormalizeAvatar(r) ==
    /\ req[r].pc = "drawn"
    /\ req[r].avatar # ""
    /\ LET name == FileName(req[r].avatar)
       IN  \/ /\ files' = Write(files, req[r].tmp, name, r, Content(0, 0, r))
              /\ req' = Step(r, "avatar", "none", Foreign(r, At(files, req[r].tmp, name)))
              /\ dirs' = dirs
           \/ Fail(r, "normalize avatar", req[r].tmp, name)
    /\ UNCHANGED <<pf_vars, d_vars, av_vars>>

\* line 75: add_avatar reads the result and the normalized avatar and saves
\* the result in place
CompositeAvatar(r) ==
    /\ req[r].pc = "avatar"
    /\ LET out == At(files, req[r].tmp, ResultName(r))
           av  == At(files, req[r].tmp, FileName(req[r].avatar))
       IN  \/ /\ \E o \in out, a \in av :
                  files' = Write(files, req[r].tmp, ResultName(r), r,
                                 Content(o.c.tpl, o.c.scores, a.c.av))
              /\ req' = Step(r, "composited", "none", Foreign(r, out \cup av))
              /\ dirs' = dirs
           \/ Fail(r, "add_avatar", req[r].tmp, ResultName(r))
    /\ UNCHANGED <<pf_vars, d_vars, av_vars>>

\* lines 77-79: the result is read and saved under gettempdir()
Persist(r) ==
    /\ \/ req[r].pc = "composited"
       \/ req[r].pc = "drawn" /\ req[r].avatar = ""
    /\ LET out == At(files, req[r].tmp, ResultName(r))
       IN  \/ /\ \E o \in out :
                  /\ files' = Write(files, TempRoot, PersistName(r), r, o.c)
                  /\ req' = [Step(r, "exit_ok", "none",
                                  Foreign(r, out \cup At(files, TempRoot, PersistName(r))))
                                 EXCEPT ![r].image = o.c]
              /\ dirs' = dirs
           \/ Fail(r, "persist", TempRoot, PersistName(r))
    /\ UNCHANGED <<pf_vars, d_vars, av_vars>>

\* line 54: the with block is left, by line 81 or by an exception
ExitTemp(r) ==
    /\ req[r].pc \in {"exit_ok", "exit_err"}
    /\ files' = RemoveTree(files, req[r].tmp)
    /\ dirs' = {e \in dirs : e.name # req[r].tmp}
    /\ req' = Step(r, IF req[r].pc = "exit_ok" THEN "returned" ELSE "raised", req[r].err,
                   Foreign(r, {f \in files : f.dir = req[r].tmp}
                              \cup {e \in dirs : e.name = req[r].tmp}))
    /\ UNCHANGED <<pf_vars, d_vars, av_vars>>

\* the uploads of a request: no template; a template alone; a template and
\* an avatar of the same file name; a template and an avatar of another name.
\* Requests differ in nothing but their uploads, so they are numbered in the
\* order of their uploads' kinds.
Uploads ==
    <<[template |-> "", avatar |-> ""],
      [template |-> "upload.png", avatar |-> ""],
      [template |-> "upload.png", avatar |-> "upload.png"],
      [template |-> "upload.png", avatar |-> "avatar.png"]>>

NewRequest(u) ==
    [template |-> u.template, avatar |-> u.avatar, pc |-> "start", tmp |-> TempRoot,
     err |-> "none", foreign |-> FALSE, image |-> NoContent]

app_Init ==
    /\ files = {}
    /\ dirs = {}
    /\ req \in {[r \in Reqs |-> NewRequest(Uploads[u[r]])] :
                    u \in {v \in [Reqs -> DOMAIN Uploads] :
                              \A r1, r2 \in Reqs : r1 <= r2 => v[r1] <= v[r2]}}

app_Idle ==
    /\ files = {}
    /\ dirs = {}
    /\ req = <<>>

AppNext ==
    \E r \in Reqs :
        \/ RejectNoTemplate(r)
        \/ EnterTemp(r)
        \/ NormalizeTemplate(r)
        \/ DrawRadar(r)
        \/ NormalizeAvatar(r)
        \/ CompositeAvatar(r)
        \/ Persist(r)
        \/ ExitTemp(r)

----------------------------------------------------------------------------
\* Specification of point_for_score alone: one call on any arguments

InitPoint == pf_Init /\ d_Idle /\ av_Idle /\ app_Idle

SpecPoint == InitPoint /\ [][PointForScore]_vars

\* Specification of draw_radar_by_anchors: one call on any arguments
DrawNext ==
    \/ DrawValidate
    \/ DrawOpen
    \/ DrawPoints
    \/ DrawPolygon
    \/ DrawLabel
    \/ DrawTitles
    \/ DrawMeta
    \/ DrawSave

InitDraw == d_Init /\ pf_Idle /\ av_Idle /\ app_Idle

SpecDraw == InitDraw /\ [][DrawNext]_vars

\* Specification of add_avatar: one call on any arguments
InitAvatar == av_Init /\ pf_Idle /\ d_Idle /\ app_Idle

SpecAvatar == InitAvatar /\ [][AddAvatar]_vars

\* Specification of generate_radar_image: NumReq requests, their steps interleaved
InitApp == app_Init /\ pf_Idle /\ d_Idle /\ av_Idle

SpecApp == InitApp /\ [][AppNext]_vars

----------------------------------------------------------------------------
\* Claims about point_for_score (checked under SpecPoint)

pf_called == pf_result.raised # "not called"

pf_valid == pf_called /\ Len(pf_anchors) = 11

\* C2: out-of-range scores saturate.  For every 11-point anchor list, a score
\* below 0 and a NaN score give the point of score 0, and a score above 10
\* gives the point of score 10; none of them is rejected.
C2_Saturates ==
    pf_valid =>
        /\ pf_result.raised = "none"
        /\ (pf_score.nan \/ Lt(pf_score, FromInt(0)))
               => pf_result = point_for_score(pf_anchors, FromInt(0))
        /\ Lt(FromInt(10), pf_score)
               => pf_result = point_for_score(pf_anchors, FromInt(10))

C2_Witness ==
    /\ pf_valid
    /\ pf_score.nan
    /\ pf_anchors[1] # pf_anchors[11]
    /\ pf_result = Returned(pf_anchors[1])

\* C3: for every 11-point anchor list and every integer score k in 0..10 the
\* result is anchors[k] itself, and for every score the two indices used
\* stay within 0..10 (anchors[11] is never indexed).
C3_IntegerScoreIsAnchor ==
    pf_valid =>
        /\ \A k \in 0..10 : pf_score = FromInt(k) => pf_result = Returned(pf_anchors[k + 1])
        /\ SegLo(Normalize(pf_score)) \in 0..10
        /\ SegHi(SegLo(Normalize(pf_score))) \in 0..10

C3_Witness ==
    /\ pf_valid
    /\ pf_score = FromInt(10)
    /\ pf_anchors[11] # pf_anchors[10]
    /\ pf_result = Returned(pf_anchors[11])

Abs(i) == IF i < 0 THEN 0 - i ELSE i

\* the score is a non-integer tenth of [0, 10], up to the float's own error
NonIntegerTenth(s) == ~s.nan /\ s.n \in 0..(10 * Den) /\ s.n % Den # 0

\* |r - (c0 + (c1 - c0) * tn/Den)| <= 1/2, in integers
WithinHalf(r, c0, c1, tn) == 2 * Abs(r * Den - (c0 * Den + (c1 - c0) * tn)) <= Den

\* C4: for every 11-point anchor list and every non-integer score s = k/10 of
\* [0, 10], each coordinate of the result is within 1/2 of the point of the
\* segment anchors[floor(s)] .. anchors[floor(s)+1] at fraction s - floor(s).
C4_InterpolatesRounded ==
    (pf_valid /\ NonIntegerTenth(pf_score)) =>
        LET lo == pf_score.n \div Den
            tn == pf_score.n % Den
            p0 == pf_anchors[lo + 1]
            p1 == pf_anchors[lo + 2]
        IN  /\ pf_result.raised = "none"
            /\ WithinHalf(pf_result.value[1], p0[1], p1[1], tn)
            /\ WithinHalf(pf_result.value[2], p0[2], p1[2], tn)

\* an interpolated point that is neither anchor of its segment
C4_Witness ==
    /\ pf_valid
    /\ NonIntegerTenth(pf_score)
    /\ pf_result.raised = "none"
    /\ pf_result.value # pf_anchors[(pf_score.n \div Den) + 1]
    /\ pf_result.value # pf_anchors[(pf_score.n \div Den) + 2]

\* c lies in the closed interval between a and b
Between(c, a, b) == (a <= c /\ c <= b) \/ (b <= c /\ c <= a)

\* from c1 to c2 is a move (or none) in the direction from a to b
SameDirection(c1, c2, a, b) == (a <= b => c1 <= c2) /\ (b <= a => c2 <= c1)

\* the scores of the model within [k, k+1]
SegmentScores(k) ==
    {s \in {Num(n, m) : n \in (k * Den)..((k + 1) * Den), m \in (0 - MaxM)..MaxM} :
        Le(FromInt(k), s) /\ Le(s, FromInt(k + 1))}

\* C5: within a segment the result is monotonic and never overshoots.  For
\* scores s1 <= s2 of one segment [k, k+1], each coordinate moves from the
\* result of s1 to the result of s2 in the direction from anchors[k] to
\* anchors[k+1], and lies between the coordinates of these two anchors.
C5_MonotonicNoOvershoot ==
    pf_valid =>
        \A k \in 0..9 :
            pf_score \in SegmentScores(k) =>
                \A s1 \in SegmentScores(k) :
                    Le(s1, pf_score) =>
                        LET r1 == point_for_score(pf_anchors, s1).value
                            r2 == pf_result.value
                            a  == pf_anchors[k + 1]
                            b  == pf_anchors[k + 2]
                        IN  \A c \in 1..2 :
                                /\ Between(r1[c], a[c], b[c])
                                /\ Between(r2[c], a[c], b[c])
                                /\ SameDirection(r1[c], r2[c], a[c], b[c])

\* a result strictly inside a segment whose anchors differ
C5_Witness ==
    /\ pf_valid
    /\ NonIntegerTenth(pf_score)
    /\ LET a == pf_anchors[(pf_score.n \div Den) + 1]
           b == pf_anchors[(pf_score.n \div Den) + 2]
       IN  /\ a[1] < pf_result.value[1]
           /\ pf_result.value[1] < b[1]

----------------------------------------------------------------------------
\* Claims about add_avatar (checked under SpecAvatar)

\* pixel p lies on the horizontal or vertical ray from the center, further
\* than twice d2 half-pixels from it
OnRayBeyond(p, d2) ==
    \/ p[2] = av_args.center[2] /\ 2 * Abs(p[1] - av_args.center[1]) > d2
    \/ p[1] = av_args.center[1] /\ 2 * Abs(p[2] - av_args.center[2]) > d2

\* C7 as stated: every background pixel on a horizontal or vertical ray from
\* center at a distance greater than size/2 + borderWidth keeps its value.
C7_Original ==
    av_pc = "returned" =>
        \A p \in Canvas :
            OnRayBeyond(p, av_args.size + 2 * av_args.border_width) => av_bg[p] = "bg"

\* C7 amended: every background pixel on a horizontal or vertical ray from
\* center at a distance greater than size/2 + borderWidth + 1/2 keeps its
\* value (int() puts an odd-sized square half a pixel further left and up).
C7_FarPixelsUnchanged ==
    av_pc = "returned" =>
        \A p \in Canvas :
            OnRayBeyond(p, av_args.size + 2 * av_args.border_width + 1) => av_bg[p] = "bg"

\* an odd-sized avatar pasted inside the canvas: pixels have changed, and
\* pixels on the rays beyond the distance exist
C7_Witness ==
    /\ av_pc = "returned"
    /\ av_args.size % 2 = 1
    /\ \E p \in Canvas : av_bg[p] # "bg"
    /\ \E p \in Canvas : OnRayBeyond(p, av_args.size + 2 * av_args.border_width + 1)

----------------------------------------------------------------------------
\* Claims about draw_radar_by_anchors (checked under SpecDraw)

WrongCount(args) ==
    \/ Len(args.scores) # 6
    \/ Len(args.anchors) # 6
    \/ Len(args.label_positions) # 6
    \/ Len(args.name_title) # 3

\* C1 as stated: called with a number of scores other than 6, of anchor
\* lists other than 6, of label positions other than 6 or of titles other
\* than 3 (the template being readable), draw_radar_by_anchors fails with a
\* validation error and writes no file at out_path.
C1_WrongCountRejected ==
    (WrongCount(d_args) /\ d_args.img.readable) =>
        /\ ~d_file
        /\ d_pc # "returned"
        /\ d_pc = "raised" => d_err = ValueError

SomeBadAnchorList(args) == \E i \in DOMAIN args.anchors : Len(args.anchors[i]) # 11

\* C6: an anchor list that is not 11 long is rejected.  point_for_score
\* raises ValueError on it for every score, and when it is one of the 6 lists
\* passed to draw_radar_by_anchors (with 6 scores) nothing is drawn, no file is
\* written, and the call can only end by raising: ValueError once the
\* template has been opened.
C6_BadAnchorListRejected ==
    /\ \A i \in DOMAIN d_args.anchors :
           Len(d_args.anchors[i]) # 11 =>
               \A s \in Scores : point_for_score(d_args.anchors[i], s) = Raised(ValueError)
    /\ (Len(d_args.scores) = 6 /\ Len(d_args.anchors) = 6 /\ SomeBadAnchorList(d_args)) =>
           /\ d_drawn = NothingDrawn
           /\ ~d_file
           /\ d_pc \in {"start", "validated", "opened", "raised"}
           /\ (d_pc = "raised" /\ d_args.img.readable) => d_err = ValueError

\* line 81 has raised on a list one point too long, the last of the six
C6_Witness ==
    /\ Len(d_args.scores) = 6
    /\ Len(d_args.anchors) = 6
    /\ Len(d_args.anchors[6]) = 12
    /\ d_args.img.readable
    /\ d_pc = "raised"
    /\ d_err = ValueError

\* a label has been drawn whose text, with its margin, fits the canvas
LabelFits ==
    /\ d_drawn.labels > 0
    /\ d_label.tw + Margin <= d_args.img.width
    /\ d_label.th + Margin <= d_args.img.height

PlacementClamped ==
    /\ 0 <= d_label.x /\ d_label.x <= d_args.img.width - d_label.tw - Margin
    /\ 0 <= d_label.y /\ d_label.y <= d_args.img.height - d_label.th - Margin

\* C10 as stated: for a text that fits, the clamped placement is within
\* 0 .. width - tw - 8 and 0 .. height - th - 8, and both the white rectangle
\* padded by 10 and the text drawn at (x', y' - 26) stay inside the canvas.
C10_Original ==
    LabelFits =>
        /\ PlacementClamped
        /\ 0 <= d_label.rect[1] /\ d_label.rect[3] < d_args.img.width
        /\ 0 <= d_label.rect[2] /\ d_label.rect[4] < d_args.img.height
        /\ 0 <= d_label.text[1] /\ d_label.text[1] + d_label.tw < d_args.img.width
        /\ 0 <= d_label.text[2] /\ d_label.text[2] + d_label.th < d_args.img.height

\* C10 amended: for a text that fits, the clamped placement is within
\* 0 .. width - tw - 8 and 0 .. height - th - 8, so that the text's box put
\* at (x', y') lies inside the canvas; the white rectangle padded by 10 may
\* pass the left and top edges by up to 10 pixels and the right and bottom
\* edges by up to 2, and the text drawn at (x', y' - 26) may start up to 26
\* pixels above the canvas.
C10_LabelPlacement ==
    LabelFits =>
        /\ PlacementClamped
        /\ d_label.x + d_label.tw < d_args.img.width
        /\ d_label.y + d_label.th < d_args.img.height
        /\ 0 - Pad <= d_label.rect[1] /\ d_label.rect[3] <= d_args.img.width + Pad - Margin
        /\ 0 - Pad <= d_label.rect[2] /\ d_label.rect[4] <= d_args.img.height + Pad - Margin
        /\ d_label.text[1] = d_label.x
        /\ 0 - Nudge <= d_label.text[2] /\ d_label.text[2] = d_label.y - Nudge

\* a label moved by the clamp to the right and bottom limits
C10_Witness ==
    /\ LabelFits
    /\ d_label.x = d_args.img.width - d_label.tw - Margin
    /\ d_label.y = d_args.img.height - d_label.th - Margin
    /\ d_label.x > 0

----------------------------------------------------------------------------
\* Claims about generate_radar_image (checked under SpecApp)

Done(r) == req[r].pc \in {"returned", "raised"}

\* C8: every call of generate_radar_image has removed its temporary
\* directory, and the normalized inputs and the staged result in it, once it
\* has returned or raised, whatever step failed.
C8_TempRemoved ==
    \A r \in Reqs :
        Done(r) =>
            /\ ~\E e \in dirs : e.owner = r
            /\ ~\E f \in files : f.owner = r /\ f.dir # TempRoot

\* one request has returned and another has raised out of the with block
C8_Witness ==
    \E r, q \in Reqs :
        /\ req[r].pc = "returned"
        /\ req[q].pc = "raised"
        /\ req[q].err = "add_avatar"

InTemp(r) == req[r].pc \notin {"start", "returned", "raised"}

Own(c, r) == c.tpl \in {0, r} /\ c.scores \in {0, r} /\ c.av \in {0, r}

\* C9: concurrent requests are isolated.  In every interleaving no request
\* reads, writes or removes a file or directory made by another request;
\* requests inside their with blocks have different directories; every file
\* lies in its writer's directory (or is its writer's persisted output) and
\* derives from its writer's inputs alone; and the image a request returns
\* is made of its own template, scores and avatar.
C9_Isolated ==
    /\ \A r \in Reqs : ~req[r].foreign
    /\ \A r, q \in Reqs : (r # q /\ InTemp(r) /\ InTemp(q)) => req[r].tmp # req[q].tmp
    /\ \A f \in files :
           /\ Own(f.c, f.owner)
           /\ f.dir # TempRoot => (InTemp(f.owner) /\ req[f.owner].tmp = f.dir)
           /\ f.dir = TempRoot => f.name = PersistName(f.owner)
    /\ \A r \in Reqs :
           req[r].pc = "returned" =>
               req[r].image = Content(r, r, IF req[r].avatar = "" THEN 0 ELSE r)

\* two requests with uploads of the same names, both with files staged
C9_Witness ==
    \E r, q \in Reqs :
        /\ r # q
        /\ req[r].template = req[q].template
        /\ req[q].avatar = req[q].template
        /\ req[r].pc = "drawn"
        /\ req[q].pc = "composited"

====
